---- MODULE Spec2Model ----
(***************************************************************************)
(* Model of src/scripts/technical_analysis.py: the indicator library, the  *)
(* signal classifiers, the trend/levels detector, the composite scorer and *)
(* the entry point analyze_stock.                                          *)
(*                                                                         *)
(* Numbers.  A float64 is a record [t, v]: t = "num" carries the value in  *)
(* fixed point (v / FP), t = "nan" is NaN and t = "inf" is +Inf (v = 1) or *)
(* -Inf (v = -1).  Arithmetic and comparisons follow IEEE 754: NaN         *)
(* propagates through arithmetic and every ordered comparison with NaN is  *)
(* false; x/0 is +-Inf and 0/0 is NaN (pandas divides without raising).    *)
(* Signed zero is not distinguished: it changes no result of this program. *)
(* Rolling sums are exact, as pandas makes them for a window of equal      *)
(* values.                                                                 *)
(*                                                                         *)
(* Strings.  A signal label is the sequence of its characters; every       *)
(* Chinese character is written as one token (its pinyin, with a tone or a *)
(* gloss where two characters share a reading), so that Python's           *)
(* `keyword in label` is the substring test Contains.                      *)
(***************************************************************************)
EXTENDS Integers, Sequences, FiniteSets, TLC

VARIABLES pc, df, ma_data, macd_data, kdj_data, rsi_data, boll_data, atr,
          vol_ma, trend, sr, score_data, result

vars == <<pc, df, ma_data, macd_data, kdj_data, rsi_data, boll_data, atr,
          vol_ma, trend, sr, score_data, result>>

(***************************************************************************)
(* Bounds of the model.                                                    *)
(***************************************************************************)
\* fixed-point units (ticks) per 0.01: prices are finer than round(x, 2) keeps
TicksPerCent == 2
\* fixed-point units per 1.0
FP == 100 * TicksPerCent
\* close of the first bar of a generated series
BasePrice == 150
\* every series length 0..ShortLen is explored
ShortLen == 16
\* the long series have LongLen..MaxLen bars
MaxLen == 121
\* DIF/DEA sequences handed to get_macd_signal have at most MaxSigLen points
MaxSigLen == 3

(***************************************************************************)
(* Default parameters of the library.                                      *)
(***************************************************************************)
MA_PERIODS == <<5, 10, 20, 60, 120>>
MACD_FAST == 12
MACD_SLOW == 26
MACD_SIGNAL == 9
KDJ_N == 9
KDJ_M1 == 3
KDJ_M2 == 3
RSI_PERIOD == 14
BOLL_PERIOD == 20
BOLL_STD_DEV == 2
ATR_PERIOD == 14
VOL_PERIODS == <<5, 10, 20>>
TREND_MA_SHORT == 20
TREND_MA_LONG == 60
SR_PERIOD == 20
BASE_SCORE == 50
\* the largest default window (the last of MA_PERIODS)
LongLen == MA_PERIODS[Len(MA_PERIODS)]

(***************************************************************************)
(* float64                                                                 *)
(***************************************************************************)
Num(v) == [t |-> "num", v |-> v]
NaN == [t |-> "nan", v |-> 0]
Inf(s) == [t |-> "inf", v |-> s]
IsNum(x) == x.t = "num"
IsNaN(x) == x.t = "nan"
\* an integer constant of the source, as a float
Const(k) == Num(k * FP)
Sign(v) == IF v > 0 THEN 1 ELSE IF v < 0 THEN -1 ELSE 0
\* the sign of a divisor or factor that may be zero (zero counts as +0)
SignZ(x) == IF x.v < 0 THEN -1 ELSE 1

FNeg(a) == [t |-> a.t, v |-> -a.v]

FAdd(a, b) ==
    IF IsNaN(a) \/ IsNaN(b) THEN NaN
    ELSE IF IsNum(a) /\ IsNum(b) THEN Num(a.v + b.v)
    ELSE IF IsNum(a) THEN b
    ELSE IF IsNum(b) THEN a
    ELSE IF a.v = b.v THEN a ELSE NaN

FSub(a, b) == FAdd(a, FNeg(b))

FMul(a, b) ==
    IF IsNaN(a) \/ IsNaN(b) THEN NaN
    ELSE IF IsNum(a) /\ IsNum(b) THEN Num((a.v * b.v) \div FP)
    ELSE IF (IsNum(a) /\ a.v = 0) \/ (IsNum(b) /\ b.v = 0) THEN NaN
    ELSE Inf(Sign(a.v) * Sign(b.v))

FDiv(a, b) ==
    IF IsNaN(a) \/ IsNaN(b) THEN NaN
    ELSE IF IsNum(a) /\ IsNum(b)
         THEN IF b.v = 0
              THEN (IF a.v = 0 THEN NaN ELSE Inf(Sign(a.v)))
              ELSE Num((a.v * FP) \div b.v)
    ELSE IF IsNum(a) THEN Num(0)
    ELSE IF IsNum(b) THEN Inf(a.v * SignZ(b))
    ELSE NaN

FAbs(a) == IF IsNaN(a) THEN NaN ELSE IF a.v < 0 THEN FNeg(a) ELSE a

FLt(a, b) ==
    /\ ~IsNaN(a)
    /\ ~IsNaN(b)
    /\ IF IsNum(a)
       THEN (IF IsNum(b) THEN a.v < b.v ELSE b.v > 0)
       ELSE (IF IsNum(b) THEN a.v < 0 ELSE a.v < b.v)
FGt(a, b) == FLt(b, a)
FLe(a, b) == ~IsNaN(a) /\ ~IsNaN(b) /\ ~FLt(b, a)
FGe(a, b) == FLe(b, a)

\* Python's round(x, nd): NaN and +-Inf pass through, nothing is raised
\* (a value exactly half-way between two results is taken upwards)
Pow10(nd) == IF nd = 2 THEN 100 ELSE 10000
round(x, nd) ==
    IF ~IsNum(x) THEN x
    ELSE Num((((x.v * 2 * Pow10(nd) + FP) \div (2 * FP)) * FP) \div Pow10(nd))

(***************************************************************************)
(* pandas Series: sequences of floats, position 1 is the oldest bar.       *)
(***************************************************************************)
\* Series.rolling(window=w) gives a value at i only when the w observations
\* i-w+1..i exist and none is NaN (min_periods defaults to the window)
WindowFull(xs, i, w) == i >= w /\ \A j \in (i - w + 1)..i : IsNum(xs[j])

\* sum, minimum and maximum of xs[lo..hi], by halving the range
RECURSIVE SumV(_, _, _)
SumV(xs, lo, hi) ==
    IF lo > hi THEN 0
    ELSE IF lo = hi THEN xs[lo].v
    ELSE LET mid == (lo + hi) \div 2 IN SumV(xs, lo, mid) + SumV(xs, mid + 1, hi)

RECURSIVE MinV(_, _, _)
MinV(xs, lo, hi) ==
    IF lo = hi THEN xs[lo].v
    ELSE LET mid == (lo + hi) \div 2
             a == MinV(xs, lo, mid)
             b == MinV(xs, mid + 1, hi)
         IN IF a < b THEN a ELSE b

RECURSIVE MaxV(_, _, _)
MaxV(xs, lo, hi) ==
    IF lo = hi THEN xs[lo].v
    ELSE LET mid == (lo + hi) \div 2
             a == MaxV(xs, lo, mid)
             b == MaxV(xs, mid + 1, hi)
         IN IF a > b THEN a ELSE b

rolling_mean(xs, w) ==
    [i \in 1..Len(xs) |->
        IF WindowFull(xs, i, w) THEN Num(SumV(xs, i - w + 1, i) \div w) ELSE NaN]

rolling_min(xs, w) ==
    [i \in 1..Len(xs) |->
        IF WindowFull(xs, i, w) THEN Num(MinV(xs, i - w + 1, i)) ELSE NaN]

rolling_max(xs, w) ==
    [i \in 1..Len(xs) |->
        IF WindowFull(xs, i, w) THEN Num(MaxV(xs, i - w + 1, i)) ELSE NaN]

\* integer square root, by bisection on lo..hi
RECURSIVE ISqrt(_, _, _)
ISqrt(v, lo, hi) ==
    IF lo >= hi THEN lo
    ELSE LET mid == (lo + hi + 1) \div 2
         IN IF mid * mid <= v THEN ISqrt(v, mid, hi) ELSE ISqrt(v, lo, mid - 1)

RECURSIVE SumSqDev(_, _, _, _)
SumSqDev(xs, lo, hi, mean) ==
    IF lo > hi THEN 0
    ELSE IF lo = hi THEN (xs[lo].v - mean) * (xs[lo].v - mean)
    ELSE LET mid == (lo + hi) \div 2
         IN SumSqDev(xs, lo, mid, mean) + SumSqDev(xs, mid + 1, hi, mean)

\* Series.rolling(window=w).std(): the sample standard deviation (ddof = 1),
\* NaN where the window is not full and for a window of one observation
rolling_std(xs, w) ==
    [i \in 1..Len(xs) |->
        IF WindowFull(xs, i, w) /\ w > 1
        THEN LET mean == SumV(xs, i - w + 1, i) \div w
                 var == SumSqDev(xs, i - w + 1, i, mean) \div (w - 1)
             IN Num(ISqrt(var, 0, 46340))
        ELSE NaN]

\* Series.ewm(alpha = an/ad, adjust=False).mean():
\* y[1] = x[1], y[t] = (1 - alpha) * y[t-1] + alpha * x[t]; a NaN observation
\* repeats the previous value
EwmStep(prev, x, an, ad) ==
    IF IsNaN(x) THEN prev
    ELSE IF IsNaN(prev) THEN x
    ELSE FDiv(FAdd(FMul(Const(ad - an), prev), FMul(Const(an), x)), Const(ad))

\* the recursion takes eight observations at a time while eight are left
RECURSIVE EwmAcc(_, _, _, _)
EwmAcc(xs, an, ad, acc) ==
    IF Len(acc) = Len(xs) THEN acc
    ELSE LET t == Len(acc) + 1
             prev == IF t = 1 THEN NaN ELSE acc[t - 1]
             y1 == EwmStep(prev, xs[t], an, ad)
         IN IF Len(xs) - Len(acc) < 8 THEN EwmAcc(xs, an, ad, Append(acc, y1))
            ELSE LET y2 == EwmStep(y1, xs[t + 1], an, ad)
                     y3 == EwmStep(y2, xs[t + 2], an, ad)
                     y4 == EwmStep(y3, xs[t + 3], an, ad)
                     y5 == EwmStep(y4, xs[t + 4], an, ad)
                     y6 == EwmStep(y5, xs[t + 5], an, ad)
                     y7 == EwmStep(y6, xs[t + 6], an, ad)
                     y8 == EwmStep(y7, xs[t + 7], an, ad)
                 IN EwmAcc(xs, an, ad, acc \o <<y1, y2, y3, y4, y5, y6, y7, y8>>)

\* ewm(span=s): alpha = 2 / (s + 1)
ewm_span(xs, s) == EwmAcc(xs, 2, s + 1, <<>>)
\* ewm(com=c): alpha = 1 / (1 + c)
ewm_com(xs, c) == EwmAcc(xs, 1, 1 + c, <<>>)

\* Series.iloc[-k] of a series that has that position
iloc(xs, k) == xs[Len(xs) + 1 - k]

(***************************************************************************)
(* The input DataFrame: a sequence of bars [high, low, close, volume] in   *)
(* ticks (1 / FP), low <= close <= high.                                    *)
(***************************************************************************)
Shapes == {"flat0", "flat1", "up", "down", "zig"}
\* close[i] - close[i-1] of a bar of the shape
Delta(shape, i) ==
    CASE shape = "up" -> 1
      [] shape = "down" -> -1
      [] shape = "zig" -> IF i % 2 = 0 THEN 1 ELSE -1
      [] OTHER -> 0
\* high - close = close - low of a bar of the shape
Spread(shape) == IF shape = "flat0" THEN 0 ELSE 1

\* the sum of Delta(shape, j) over j in a..b
CumDelta(shape, a, b) ==
    IF a > b THEN 0
    ELSE CASE shape = "up" -> b - a + 1
           [] shape = "down" -> -(b - a + 1)
           [] shape = "zig" -> IF (b - a + 1) % 2 = 0 THEN 0 ELSE Delta(shape, a)
           [] OTHER -> 0

\* n bars: the first n - t of the shape head, the last t of the shape tail
MkBars(n, head, tail, t) ==
    [i \in 1..n |->
        LET cut == IF n - t < 0 THEN 0 ELSE n - t
            shape == IF i <= cut THEN head ELSE tail
            lastHead == IF i < cut THEN i ELSE cut
            firstTail == IF cut + 1 > 2 THEN cut + 1 ELSE 2
            c == BasePrice + CumDelta(head, 2, lastHead) + CumDelta(tail, firstTail, i)
        IN [high |-> (c + Spread(shape)) * FP, low |-> (c - Spread(shape)) * FP,
            close |-> c * FP, volume |-> (1000 + 10 * Delta(shape, i)) * FP]]

\* lengths that fill the short window of detect_trend but not the long one
MidLens == {TREND_MA_SHORT, TREND_MA_LONG - 1}
\* lengths of the series explored
Lens == (0..ShortLen) \cup MidLens \cup (LongLen..MaxLen)
\* a series is a head of one shape followed by a tail of t bars of another
TailLens == {1, KDJ_N, RSI_PERIOD + 1}
AllSeries == {MkBars(n, h, tl, t) : n \in Lens, h \in Shapes, tl \in Shapes, t \in TailLens}

Col(name) == [i \in 1..Len(df) |-> Num(df[i][name])]
close == Col("close")
high == Col("high")
low == Col("low")
volume == Col("volume")

(***************************************************************************)
(* Indicator library                                                       *)
(***************************************************************************)
(***************************************************************************)
(* Signal labels.  One token per character of the source's string:         *)
(*   shu ju bu zu = "insufficient data"; jin cha = golden cross; si cha =  *)
(*   death cross; mai3 = buy (U+4E70), mai4 = sell (U+5356); mai3 ru =     *)
(*   buy-in; mai4 chu_out = sell-out; duo tou = bulls; kong tou = bears;   *)
(*   qiang = strong; chao mai3 = overbought; chao mai4 = oversold;         *)
(*   pian duo = bullish bias; pian kong = bearish bias.                    *)
(***************************************************************************)
L_INSUFFICIENT == <<"shu", "ju", "bu", "zu">>
\* MACD
L_MACD_GOLDEN == <<"jin", "cha", "mai3", "ru">>
L_MACD_DEATH == <<"si", "cha", "mai4", "chu_out">>
L_MACD_BULL_STRONG == <<"duo", "tou", "qiang", "shi">>
L_MACD_BULL_EMERGING == <<"duo", "tou", "chu_first", "xian">>
L_MACD_BEAR_STRONG == <<"kong", "tou", "qiang", "shi">>
L_MACD_BEAR_EMERGING == <<"kong", "tou", "chu_first", "xian">>
\* KDJ
L_KDJ_STRONG_BUY == <<"chao", "mai4", "jin", "cha", "-", "qiang", "mai3">>
L_KDJ_BUY == <<"jin", "cha", "mai3", "ru">>
L_KDJ_HIGH_GOLDEN == <<"gao", "wei", "jin", "cha">>
L_KDJ_STRONG_SELL == <<"chao", "mai3", "si", "cha", "-", "qiang", "mai4">>
L_KDJ_SELL == <<"si", "cha", "mai4", "chu_out">>
L_KDJ_LOW_DEATH == <<"di", "wei", "si", "cha">>
L_KDJ_OVERBOUGHT == <<"chao", "mai3", "qu_zone", "yu">>
L_KDJ_OVERSOLD == <<"chao", "mai4", "qu_zone", "yu">>
L_KDJ_NEUTRAL == <<"zhong1", "xing", "zhen", "dang">>
\* RSI
L_RSI_SEVERE_OVERBOUGHT == <<"yan", "zhong4", "chao", "mai3">>
L_RSI_OVERBOUGHT == <<"chao", "mai3">>
L_RSI_SEVERE_OVERSOLD == <<"yan", "zhong4", "chao", "mai4">>
L_RSI_OVERSOLD == <<"chao", "mai4">>
L_RSI_NEUTRAL_PREFIX == <<"zhong1", "xing", "(">>
\* BOLL
L_BOLL_OVERBOUGHT == <<"tu", "po", "shang", "gui", "-", "chao", "mai3">>
L_BOLL_OVERSOLD == <<"die", "po", "xia", "gui", "-", "chao", "mai4">>
L_BOLL_BULLISH == <<"zhong1", "gui", "shang", "fang", "-", "pian", "duo">>
L_BOLL_BEARISH == <<"zhong1", "gui", "xia", "fang", "-", "pian", "kong">>
\* trend
L_UPTREND == <<"shang", "sheng", "qu_trend", "shi">>
L_DOWNTREND == <<"xia", "jiang", "qu_trend", "shi">>
L_SIDEWAYS == <<"zhen", "dang", "zheng", "li">>
\* ratings
L_RATE_STRONG_BUY == <<"qiang", "lie", "mai3", "ru">>
L_RATE_BUY == <<"mai3", "ru">>
L_RATE_NEUTRAL == <<"zhong1", "xing">>
\* rating "sell"
L_RATE_SELL == <<"mai4", "chu_out">>
L_RATE_STRONG_SELL == <<"qiang", "lie", "mai4", "chu_out">>

\* Python's `sub in s` on strings
Contains(sub, s) ==
    \E i \in 1..(Len(s) - Len(sub) + 1) : SubSeq(s, i, i + Len(sub) - 1) = sub

DigitChars == <<"0", "1", "2", "3", "4", "5", "6", "7", "8", "9">>
RECURSIVE Digits(_)
Digits(n) ==
    IF n < 10 THEN <<DigitChars[n + 1]>>
    ELSE Digits(n \div 10) \o <<DigitChars[(n % 10) + 1]>>

\* f"{x:.1f}"
FormatF1(x) ==
    IF IsNaN(x) THEN <<"n", "a", "n">>
    ELSE IF ~IsNum(x) THEN (IF x.v < 0 THEN <<"-">> ELSE <<>>) \o <<"i", "n", "f">>
    ELSE LET a == IF x.v < 0 THEN -x.v ELSE x.v
             tenths == (a * 20 + FP) \div (2 * FP)
         IN (IF x.v < 0 /\ tenths > 0 THEN <<"-">> ELSE <<>>)
            \o Digits(tenths \div 10) \o <<".">> \o Digits(tenths % 10)

(***************************************************************************)
(* Indicator library and signal classifiers                                *)
(***************************************************************************)
calc_ma(c, periods) ==
    [k \in 1..Len(periods) |-> rolling_mean(c, periods[k])]

\* get_macd_signal with the prior bar compared strictly
get_macd_signal_StrictPrior(dif, dea) ==
    IF Len(dif) < 2 THEN L_INSUFFICIENT
    ELSE IF FGt(iloc(dif, 1), iloc(dea, 1)) /\ FLt(iloc(dif, 2), iloc(dea, 2))
         THEN L_MACD_GOLDEN
    ELSE IF FLt(iloc(dif, 1), iloc(dea, 1)) /\ FGt(iloc(dif, 2), iloc(dea, 2))
         THEN L_MACD_DEATH
    ELSE IF FGt(iloc(dif, 1), iloc(dea, 1))
         THEN (IF FGt(iloc(dif, 1), Const(0)) THEN L_MACD_BULL_STRONG
               ELSE L_MACD_BULL_EMERGING)
    ELSE (IF FLt(iloc(dif, 1), Const(0)) THEN L_MACD_BEAR_STRONG
          ELSE L_MACD_BEAR_EMERGING)

get_macd_signal(dif, dea) ==
    IF Len(dif) < 2 THEN L_INSUFFICIENT
    ELSE IF FGt(iloc(dif, 1), iloc(dea, 1)) /\ FLe(iloc(dif, 2), iloc(dea, 2))
         THEN L_MACD_GOLDEN
    ELSE IF FLt(iloc(dif, 1), iloc(dea, 1)) /\ FGe(iloc(dif, 2), iloc(dea, 2))
         THEN L_MACD_DEATH
    ELSE IF FGt(iloc(dif, 1), iloc(dea, 1))
         THEN (IF FGt(iloc(dif, 1), Const(0)) THEN L_MACD_BULL_STRONG
               ELSE L_MACD_BULL_EMERGING)
    ELSE (IF FLt(iloc(dif, 1), Const(0)) THEN L_MACD_BEAR_STRONG
          ELSE L_MACD_BEAR_EMERGING)

calc_macd(c, fast, slow, signal) ==
    LET ema_fast == ewm_span(c, fast)
        ema_slow == ewm_span(c, slow)
        dif == [i \in 1..Len(c) |-> FSub(ema_fast[i], ema_slow[i])]
        dea == ewm_span(dif, signal)
        macd == [i \in 1..Len(c) |-> FMul(FSub(dif[i], dea[i]), Const(2))]
    IN [set |-> TRUE, DIF |-> dif, DEA |-> dea, MACD |-> macd,
        signal |-> get_macd_signal(dif, dea)]

\* fillna that fills nothing
fillna_Nothing(xs, value) == xs

\* Series.fillna(value): only NaN is replaced, +-Inf stays
fillna(xs, value) == [i \in 1..Len(xs) |-> IF IsNaN(xs[i]) THEN value ELSE xs[i]]

\* the local rsv of calc_kdj
kdj_rsv(h, l, c, n) ==
    LET low_n == rolling_min(l, n)
        high_n == rolling_max(h, n)
        rsv == [i \in 1..Len(c) |->
                   FMul(FDiv(FSub(c[i], low_n[i]), FSub(high_n[i], low_n[i])),
                        Const(100))]
    IN fillna(rsv, Const(50))

\* get_kdj_signal with the oversold level of a golden cross inclusive
get_kdj_signal_InclusiveLevel(k, d) ==
    IF Len(k) < 2 THEN L_INSUFFICIENT
    ELSE LET k_val == iloc(k, 1)
         IN IF FGt(iloc(k, 1), iloc(d, 1)) /\ FLe(iloc(k, 2), iloc(d, 2))
            THEN (IF FLe(k_val, Const(20)) THEN L_KDJ_STRONG_BUY
                  ELSE IF FLt(k_val, Const(50)) THEN L_KDJ_BUY
                  ELSE L_KDJ_HIGH_GOLDEN)
            ELSE IF FLt(iloc(k, 1), iloc(d, 1)) /\ FGe(iloc(k, 2), iloc(d, 2))
            THEN (IF FGt(k_val, Const(80)) THEN L_KDJ_STRONG_SELL
                  ELSE IF FGt(k_val, Const(50)) THEN L_KDJ_SELL
                  ELSE L_KDJ_LOW_DEATH)
            ELSE IF FGt(k_val, Const(80)) THEN L_KDJ_OVERBOUGHT
            ELSE IF FLt(k_val, Const(20)) THEN L_KDJ_OVERSOLD
            ELSE L_KDJ_NEUTRAL

get_kdj_signal(k, d) ==
    IF Len(k) < 2 THEN L_INSUFFICIENT
    ELSE LET k_val == iloc(k, 1)
         IN IF FGt(iloc(k, 1), iloc(d, 1)) /\ FLe(iloc(k, 2), iloc(d, 2))
            THEN (IF FLt(k_val, Const(20)) THEN L_KDJ_STRONG_BUY
                  ELSE IF FLt(k_val, Const(50)) THEN L_KDJ_BUY
                  ELSE L_KDJ_HIGH_GOLDEN)
            ELSE IF FLt(iloc(k, 1), iloc(d, 1)) /\ FGe(iloc(k, 2), iloc(d, 2))
            THEN (IF FGt(k_val, Const(80)) THEN L_KDJ_STRONG_SELL
                  ELSE IF FGt(k_val, Const(50)) THEN L_KDJ_SELL
                  ELSE L_KDJ_LOW_DEATH)
            ELSE IF FGt(k_val, Const(80)) THEN L_KDJ_OVERBOUGHT
            ELSE IF FLt(k_val, Const(20)) THEN L_KDJ_OVERSOLD
            ELSE L_KDJ_NEUTRAL

calc_kdj(h, l, c, n, m1, m2) ==
    LET rsv == kdj_rsv(h, l, c, n)
        k == ewm_com(rsv, m1 - 1)
        d == ewm_com(k, m2 - 1)
        j == [i \in 1..Len(c) |-> FSub(FMul(Const(3), k[i]), FMul(Const(2), d[i]))]
    IN [set |-> TRUE, RSV |-> rsv, K |-> k, D |-> d, J |-> j,
        signal |-> get_kdj_signal(k, d)]

\* Series.diff(): NaN at the first position
diff(c) == [i \in 1..Len(c) |-> IF i = 1 THEN NaN ELSE FSub(c[i], c[i - 1])]

get_rsi_signal(rsi) ==
    IF Len(rsi) < 1 THEN L_INSUFFICIENT
    ELSE LET rsi_val == iloc(rsi, 1)
         IN IF FGt(rsi_val, Const(80)) THEN L_RSI_SEVERE_OVERBOUGHT
            ELSE IF FGt(rsi_val, Const(70)) THEN L_RSI_OVERBOUGHT
            ELSE IF FLt(rsi_val, Const(20)) THEN L_RSI_SEVERE_OVERSOLD
            ELSE IF FLt(rsi_val, Const(30)) THEN L_RSI_OVERSOLD
            ELSE L_RSI_NEUTRAL_PREFIX \o FormatF1(rsi_val) \o <<")">>

\* rsi_series whose loss averages every delta's magnitude, not only the falls
rsi_series_AbsLoss(c, period) ==
    LET delta == diff(c)
        up == [i \in 1..Len(c) |-> IF FGt(delta[i], Const(0)) THEN delta[i] ELSE Const(0)]
        dn == [i \in 1..Len(c) |-> IF IsNaN(delta[i]) THEN Const(0) ELSE FAbs(delta[i])]
        gain == rolling_mean(up, period)
        loss == rolling_mean(dn, period)
    IN [i \in 1..Len(c) |->
           LET rs == FDiv(gain[i], loss[i])
           IN FSub(Const(100), FDiv(Const(100), FAdd(Const(1), rs)))]

\* the series rsi of calc_rsi
rsi_series(c, period) ==
    LET delta == diff(c)
        \* delta.where(cond, 0) keeps delta where cond holds and puts 0 elsewhere,
        \* also where delta is NaN
        up == [i \in 1..Len(c) |-> IF FGt(delta[i], Const(0)) THEN delta[i] ELSE Const(0)]
        dn == [i \in 1..Len(c) |->
                  FNeg(IF FLt(delta[i], Const(0)) THEN delta[i] ELSE Const(0))]
        gain == rolling_mean(up, period)
        loss == rolling_mean(dn, period)
    IN [i \in 1..Len(c) |->
           LET rs == FDiv(gain[i], loss[i])
           IN FSub(Const(100), FDiv(Const(100), FAdd(Const(1), rs)))]

calc_rsi(c, period) ==
    LET rsi == rsi_series(c, period)
    IN [set |-> TRUE, RSI |-> rsi, signal |-> get_rsi_signal(rsi)]

\* get_boll_signal whose bias test compares the price with the lower band
get_boll_signal_BiasFromLower(c, upper, mid, lower) ==
    IF Len(c) < 1 THEN L_INSUFFICIENT
    ELSE LET price == iloc(c, 1)
             u == iloc(upper, 1)
             l == iloc(lower, 1)
         IN IF FGt(price, u) THEN L_BOLL_OVERBOUGHT
            ELSE IF FLt(price, l) THEN L_BOLL_OVERSOLD
            ELSE IF FGt(price, l) THEN L_BOLL_BULLISH
            ELSE L_BOLL_BEARISH

get_boll_signal(c, upper, mid, lower) ==
    IF Len(c) < 1 THEN L_INSUFFICIENT
    ELSE LET price == iloc(c, 1)
             u == iloc(upper, 1)
             m == iloc(mid, 1)
             l == iloc(lower, 1)
         IN IF FGt(price, u) THEN L_BOLL_OVERBOUGHT
            ELSE IF FLt(price, l) THEN L_BOLL_OVERSOLD
            ELSE IF FGt(price, m) THEN L_BOLL_BULLISH
            ELSE L_BOLL_BEARISH

calc_boll(c, period, std_dev) ==
    LET mid == rolling_mean(c, period)
        std == rolling_std(c, period)
        upper == [i \in 1..Len(c) |-> FAdd(mid[i], FMul(Const(std_dev), std[i]))]
        lower == [i \in 1..Len(c) |-> FSub(mid[i], FMul(Const(std_dev), std[i]))]
    IN [set |-> TRUE, UPPER |-> upper, MID |-> mid, LOWER |-> lower,
        signal |-> get_boll_signal(c, upper, mid, lower)]

\* DataFrame.max(axis=1): the largest non-NaN value of the row (skipna),
\* NaN when the row has none
FMaxSkipNa(a, b) ==
    IF IsNaN(a) THEN b ELSE IF IsNaN(b) THEN a ELSE IF FLt(a, b) THEN b ELSE a

calc_atr(h, l, c, period) ==
    LET \* close.shift(1)
        pcl == [i \in 1..Len(c) |-> IF i = 1 THEN NaN ELSE c[i - 1]]
        tr1 == [i \in 1..Len(c) |-> FSub(h[i], l[i])]
        tr2 == [i \in 1..Len(c) |-> FAbs(FSub(h[i], pcl[i]))]
        tr3 == [i \in 1..Len(c) |-> FAbs(FSub(l[i], pcl[i]))]
        tr == [i \in 1..Len(c) |-> FMaxSkipNa(FMaxSkipNa(tr1[i], tr2[i]), tr3[i])]
    IN rolling_mean(tr, period)

calc_vol_ma(v, periods) ==
    [k \in 1..Len(periods) |-> rolling_mean(v, periods[k])]

\* detect_trend whose comparisons also accept equality
detect_trend_NonStrict(c, ma_short, ma_long) ==
    LET ma_s == rolling_mean(c, ma_short)
        ma_l == rolling_mean(c, ma_long)
    IN IF Len(ma_s) < 1 \/ Len(ma_l) < 1 THEN L_INSUFFICIENT
       ELSE IF FGe(iloc(ma_s, 1), iloc(ma_l, 1)) /\ FGe(iloc(c, 1), iloc(ma_s, 1))
            THEN L_UPTREND
       ELSE IF FLe(iloc(ma_s, 1), iloc(ma_l, 1)) /\ FLe(iloc(c, 1), iloc(ma_s, 1))
            THEN L_DOWNTREND
       ELSE L_SIDEWAYS

detect_trend(c, ma_short, ma_long) ==
    LET ma_s == rolling_mean(c, ma_short)
        ma_l == rolling_mean(c, ma_long)
    IN IF Len(ma_s) < 1 \/ Len(ma_l) < 1 THEN L_INSUFFICIENT
       ELSE IF FGt(iloc(ma_s, 1), iloc(ma_l, 1)) /\ FGt(iloc(c, 1), iloc(ma_s, 1))
            THEN L_UPTREND
       ELSE IF FLt(iloc(ma_s, 1), iloc(ma_l, 1)) /\ FLt(iloc(c, 1), iloc(ma_s, 1))
            THEN L_DOWNTREND
       ELSE L_SIDEWAYS

\* Series.iloc[-k] raises IndexError when the series has fewer than k values
IndexError(xs, k) == Len(xs) < k

\* find_support_resistance taking the extremes of the whole series
find_support_resistance_WholeSeries(h, l, c, period) ==
    LET support == Num(MinV(l, 1, Len(l)))
        resistance == Num(MaxV(h, 1, Len(h)))
        pivot == FDiv(FAdd(FAdd(iloc(h, 1), iloc(l, 1)), iloc(c, 1)), Const(3))
    IN [set |-> TRUE, support |-> round(support, 2),
        resistance |-> round(resistance, 2), pivot |-> round(pivot, 2)]

find_support_resistance(h, l, c, period) ==
    LET support == iloc(rolling_min(l, period), 1)
        resistance == iloc(rolling_max(h, period), 1)
        pivot == FDiv(FAdd(FAdd(iloc(h, 1), iloc(l, 1)), iloc(c, 1)), Const(3))
    IN [set |-> TRUE, support |-> round(support, 2),
        resistance |-> round(resistance, 2), pivot |-> round(pivot, 2)]

(***************************************************************************)
(* Composite scorer                                                        *)
(***************************************************************************)
K_GOLDEN == <<"jin", "cha">>
K_BULL == <<"duo", "tou">>
K_DEATH == <<"si", "cha">>
K_BEAR == <<"kong", "tou">>
K_STRONG_BUY == <<"qiang", "mai3">>
K_BUY == <<"mai3", "ru">>
K_STRONG_SELL == <<"qiang", "mai4">>
K_SELL == <<"mai4", "chu_out">>
K_OVERSOLD == <<"chao", "mai4">>
K_OVERBOUGHT == <<"chao", "mai3">>
K_BULLISH_BIAS == <<"pian", "duo">>
K_BEARISH_BIAS == <<"pian", "kong">>

\* MacdAdj that looks for the crosses only
MacdAdj_CrossOnly(macd_signal) ==
    IF Contains(K_GOLDEN, macd_signal) THEN 15
    ELSE IF Contains(K_DEATH, macd_signal) THEN -15
    ELSE 0

MacdAdj(macd_signal) ==
    IF Contains(K_GOLDEN, macd_signal) \/ Contains(K_BULL, macd_signal) THEN 15
    ELSE IF Contains(K_DEATH, macd_signal) \/ Contains(K_BEAR, macd_signal) THEN -15
    ELSE 0

KdjAdj(kdj_signal) ==
    IF Contains(K_STRONG_BUY, kdj_signal) THEN 15
    ELSE IF Contains(K_BUY, kdj_signal) THEN 10
    ELSE IF Contains(K_STRONG_SELL, kdj_signal) THEN -15
    ELSE IF Contains(K_SELL, kdj_signal) THEN -10
    ELSE 0

RsiAdj(rsi_signal) ==
    IF Contains(K_OVERSOLD, rsi_signal) THEN 10
    ELSE IF Contains(K_OVERBOUGHT, rsi_signal) THEN -10
    ELSE 0

BollAdj(boll_signal) ==
    IF Contains(K_OVERSOLD, boll_signal) THEN 10
    ELSE IF Contains(K_OVERBOUGHT, boll_signal) THEN -10
    ELSE IF Contains(K_BULLISH_BIAS, boll_signal) THEN 5
    ELSE IF Contains(K_BEARISH_BIAS, boll_signal) THEN -5
    ELSE 0

TrendAdj(tr) ==
    IF tr = L_UPTREND THEN 15 ELSE IF tr = L_DOWNTREND THEN -15 ELSE 0

\* Rating with the floor of the top tier exclusive
Rating_ExclusiveFloor(score) ==
    IF score > 80 THEN [rating |-> L_RATE_STRONG_BUY, stars |-> 5]
    ELSE IF score >= 65 THEN [rating |-> L_RATE_BUY, stars |-> 4]
    ELSE IF score >= 50 THEN [rating |-> L_RATE_NEUTRAL, stars |-> 3]
    ELSE IF score >= 35 THEN [rating |-> L_RATE_SELL, stars |-> 2]
    ELSE [rating |-> L_RATE_STRONG_SELL, stars |-> 1]

\* the rating and the stars of a score, before it is clamped
Rating(score) ==
    IF score >= 80 THEN [rating |-> L_RATE_STRONG_BUY, stars |-> 5]
    ELSE IF score >= 65 THEN [rating |-> L_RATE_BUY, stars |-> 4]
    ELSE IF score >= 50 THEN [rating |-> L_RATE_NEUTRAL, stars |-> 3]
    ELSE IF score >= 35 THEN [rating |-> L_RATE_SELL, stars |-> 2]
    ELSE [rating |-> L_RATE_STRONG_SELL, stars |-> 1]

Min(a, b) == IF a < b THEN a ELSE b
Max(a, b) == IF a > b THEN a ELSE b
\* Clamp without the upper limit
Clamp_NoUpper(score) == Max(score, 0)
Clamp(score) == Min(Max(score, 0), 100)

technical_score(macd_signal, kdj_signal, rsi_signal, boll_signal, tr) ==
    LET score == BASE_SCORE + MacdAdj(macd_signal) + KdjAdj(kdj_signal)
                 + RsiAdj(rsi_signal) + BollAdj(boll_signal) + TrendAdj(tr)
        r == Rating(score)
    IN [set |-> TRUE, score |-> Clamp(score), rating |-> r.rating, stars |-> r.stars]

(***************************************************************************)
(* analyze_stock, one step per call it makes, in the order of the source.  *)
(*   pc = the call that runs next; "returned" and "raised" end the run.    *)
(***************************************************************************)
Unset == [set |-> FALSE]

InitCommon ==
    /\ ma_data = Unset
    /\ atr = Unset
    /\ vol_ma = Unset
    /\ sr = Unset
    /\ score_data = Unset
    /\ result = Unset

Init ==
    /\ pc = "calc_ma"
    /\ df \in AllSeries
    /\ macd_data = Unset
    /\ kdj_data = Unset
    /\ rsi_data = Unset
    /\ boll_data = Unset
    /\ trend = Unset
    /\ InitCommon

Call_calc_ma ==
    /\ pc = "calc_ma"
    /\ pc' = "calc_macd"
    /\ ma_data' = [set |-> TRUE, MA |-> calc_ma(close, MA_PERIODS)]
    /\ UNCHANGED <<df, macd_data, kdj_data, rsi_data, boll_data, atr, vol_ma,
                   trend, sr, score_data, result>>

Call_calc_macd ==
    /\ pc = "calc_macd"
    /\ pc' = "calc_kdj"
    /\ macd_data' = calc_macd(close, MACD_FAST, MACD_SLOW, MACD_SIGNAL)
    /\ UNCHANGED <<df, ma_data, kdj_data, rsi_data, boll_data, atr, vol_ma,
                   trend, sr, score_data, result>>

Call_calc_kdj ==
    /\ pc = "calc_kdj"
    /\ pc' = "calc_rsi"
    /\ kdj_data' = calc_kdj(high, low, close, KDJ_N, KDJ_M1, KDJ_M2)
    /\ UNCHANGED <<df, ma_data, macd_data, rsi_data, boll_data, atr, vol_ma,
                   trend, sr, score_data, result>>

Call_calc_rsi ==
    /\ pc = "calc_rsi"
    /\ pc' = "calc_boll"
    /\ rsi_data' = calc_rsi(close, RSI_PERIOD)
    /\ UNCHANGED <<df, ma_data, macd_data, kdj_data, boll_data, atr, vol_ma,
                   trend, sr, score_data, result>>

Call_calc_boll ==
    /\ pc = "calc_boll"
    /\ pc' = "calc_atr"
    /\ boll_data' = calc_boll(close, BOLL_PERIOD, BOLL_STD_DEV)
    /\ UNCHANGED <<df, ma_data, macd_data, kdj_data, rsi_data, atr, vol_ma,
                   trend, sr, score_data, result>>

Call_calc_atr ==
    /\ pc = "calc_atr"
    /\ pc' = "detect_trend"
    /\ atr' = [set |-> TRUE, ATR |-> calc_atr(high, low, close, ATR_PERIOD)]
    /\ UNCHANGED <<df, ma_data, macd_data, kdj_data, rsi_data, boll_data, vol_ma,
                   trend, sr, score_data, result>>

Call_detect_trend ==
    /\ pc = "detect_trend"
    /\ pc' = "find_support_resistance"
    /\ trend' = [set |-> TRUE,
                 label |-> detect_trend(close, TREND_MA_SHORT, TREND_MA_LONG)]
    /\ UNCHANGED <<df, ma_data, macd_data, kdj_data, rsi_data, boll_data, atr,
                   vol_ma, sr, score_data, result>>

\* low.rolling(...).min().iloc[-1] raises IndexError on an empty series
Call_find_support_resistance ==
    /\ pc = "find_support_resistance"
    /\ IF IndexError(low, 1)
       THEN /\ pc' = "raised"
            /\ UNCHANGED sr
       ELSE /\ pc' = "technical_score"
            /\ sr' = find_support_resistance(high, low, close, SR_PERIOD)
    /\ UNCHANGED <<df, ma_data, macd_data, kdj_data, rsi_data, boll_data, atr,
                   vol_ma, trend, score_data, result>>

Call_technical_score ==
    /\ pc = "technical_score"
    /\ pc' = "return"
    /\ score_data' = technical_score(macd_data.signal, kdj_data.signal,
                                     rsi_data.signal, boll_data.signal, trend.label)
    /\ UNCHANGED <<df, ma_data, macd_data, kdj_data, rsi_data, boll_data, atr,
                   vol_ma, trend, sr, result>>

\* the returned dict; close.iloc[-2] raises IndexError on a series of one bar
analyze_stock_result ==
    [set |-> TRUE,
     price |-> [current |-> round(iloc(close, 1), 2),
                change_pct |-> round(FMul(FSub(FDiv(iloc(close, 1), iloc(close, 2)),
                                               Const(1)), Const(100)), 2)],
     trend |-> trend.label,
     support_resistance |-> sr,
     indicators |->
        [MACD |-> [DIF |-> round(iloc(macd_data.DIF, 1), 4),
                   DEA |-> round(iloc(macd_data.DEA, 1), 4),
                   signal |-> macd_data.signal],
         KDJ |-> [K |-> round(iloc(kdj_data.K, 1), 2),
                  D |-> round(iloc(kdj_data.D, 1), 2),
                  J |-> round(iloc(kdj_data.J, 1), 2),
                  signal |-> kdj_data.signal],
         RSI |-> [value |-> round(iloc(rsi_data.RSI, 1), 2),
                  signal |-> rsi_data.signal],
         BOLL |-> [upper |-> round(iloc(boll_data.UPPER, 1), 2),
                   mid |-> round(iloc(boll_data.MID, 1), 2),
                   lower |-> round(iloc(boll_data.LOWER, 1), 2),
                   signal |-> boll_data.signal],
         ATR |-> round(iloc(atr.ATR, 1), 2)],
     score |-> score_data]

Return_analyze_stock ==
    /\ pc = "return"
    /\ IF IndexError(close, 2)
       THEN /\ pc' = "raised"
            /\ UNCHANGED result
       ELSE /\ pc' = "returned"
            /\ result' = analyze_stock_result
    /\ UNCHANGED <<df, ma_data, macd_data, kdj_data, rsi_data, boll_data, atr,
                   vol_ma, trend, sr, score_data>>

\* calc_vol_ma is a library function that analyze_stock does not call: a
\* caller applies it to the volume column on its own
Call_calc_vol_ma ==
    /\ pc = "calc_ma"
    /\ pc' = "vol_done"
    /\ vol_ma' = [set |-> TRUE, VOL_MA |-> calc_vol_ma(volume, VOL_PERIODS)]
    /\ UNCHANGED <<df, ma_data, macd_data, kdj_data, rsi_data, boll_data, atr,
                   trend, sr, score_data, result>>

Next ==
    \/ Call_calc_ma
    \/ Call_calc_macd
    \/ Call_calc_kdj
    \/ Call_calc_rsi
    \/ Call_calc_boll
    \/ Call_calc_atr
    \/ Call_detect_trend
    \/ Call_find_support_resistance
    \/ Call_technical_score
    \/ Return_analyze_stock
    \/ Call_calc_vol_ma

Spec == Init /\ [][Next]_vars

(***************************************************************************)
(* technical_score on every combination of the labels the classifiers     *)
(* emit and of two strings they do not emit.                               *)
(***************************************************************************)
MacdLabels == {L_INSUFFICIENT, L_MACD_GOLDEN, L_MACD_DEATH, L_MACD_BULL_STRONG,
               L_MACD_BULL_EMERGING, L_MACD_BEAR_STRONG, L_MACD_BEAR_EMERGING}
KdjLabels == {L_INSUFFICIENT, L_KDJ_STRONG_BUY, L_KDJ_BUY, L_KDJ_HIGH_GOLDEN,
              L_KDJ_STRONG_SELL, L_KDJ_SELL, L_KDJ_LOW_DEATH, L_KDJ_OVERBOUGHT,
              L_KDJ_OVERSOLD, L_KDJ_NEUTRAL}
\* the neutral RSI label carries the formatted value: one in the neutral
\* zone, the zone's two ends, and NaN
RsiNeutralValues == {NaN, Const(30), Const(50), Const(70)}
RsiNeutralLabels ==
    {L_RSI_NEUTRAL_PREFIX \o FormatF1(x) \o <<")">> : x \in RsiNeutralValues}
RsiLabels == {L_INSUFFICIENT, L_RSI_SEVERE_OVERBOUGHT, L_RSI_OVERBOUGHT,
              L_RSI_SEVERE_OVERSOLD, L_RSI_OVERSOLD} \cup RsiNeutralLabels
BollLabels == {L_INSUFFICIENT, L_BOLL_OVERBOUGHT, L_BOLL_OVERSOLD, L_BOLL_BULLISH,
               L_BOLL_BEARISH}
TrendLabels == {L_INSUFFICIENT, L_UPTREND, L_DOWNTREND, L_SIDEWAYS}

\* strings no classifier emits, which a caller of technical_score may still
\* pass: the empty string and one that holds every keyword of the scorer
OtherStrings ==
    {<<>>,
     K_DEATH \o K_BEAR \o K_GOLDEN \o K_BULL \o K_SELL \o K_STRONG_SELL \o K_BUY
     \o K_STRONG_BUY \o K_OVERBOUGHT \o K_OVERSOLD \o K_BEARISH_BIAS
     \o K_BULLISH_BIAS}

InitScore ==
    /\ pc = "technical_score"
    /\ df = <<>>
    /\ macd_data \in {[set |-> TRUE, signal |-> l] : l \in MacdLabels \cup OtherStrings}
    /\ kdj_data \in {[set |-> TRUE, signal |-> l] : l \in KdjLabels \cup OtherStrings}
    /\ rsi_data \in {[set |-> TRUE, signal |-> l] : l \in RsiLabels \cup OtherStrings}
    /\ boll_data \in {[set |-> TRUE, signal |-> l] : l \in BollLabels \cup OtherStrings}
    /\ trend \in {[set |-> TRUE, label |-> l] : l \in TrendLabels \cup OtherStrings}
    /\ InitCommon

NextScore == Call_technical_score

SpecScore == InitScore /\ [][NextScore]_vars

(***************************************************************************)
(* get_macd_signal on every pair of aligned DIF and DEA sequences.         *)
(***************************************************************************)
SigValues == {NaN, Const(-1), Const(0), Const(1)}
SigSeqs(n) == [1..n -> SigValues]

InitMacd ==
    /\ pc = "get_macd_signal"
    /\ df = <<>>
    /\ \E n \in 0..MaxSigLen :
          macd_data \in {[set |-> FALSE, DIF |-> a, DEA |-> b] :
                            a \in SigSeqs(n), b \in SigSeqs(n)}
    /\ kdj_data = Unset
    /\ rsi_data = Unset
    /\ boll_data = Unset
    /\ trend = Unset
    /\ InitCommon

Call_get_macd_signal ==
    /\ pc = "get_macd_signal"
    /\ pc' = "returned"
    /\ macd_data' = [set |-> TRUE, DIF |-> macd_data.DIF, DEA |-> macd_data.DEA,
                     signal |-> get_macd_signal(macd_data.DIF, macd_data.DEA)]
    /\ UNCHANGED <<df, ma_data, kdj_data, rsi_data, boll_data, atr, vol_ma,
                   trend, sr, score_data, result>>

NextMacd == Call_get_macd_signal

SpecMacd == InitMacd /\ [][NextMacd]_vars

(***************************************************************************)
(* Properties                                                              *)
(***************************************************************************)
\* the sum technical_score forms before it clamps, for the labels in the state
RawScore ==
    BASE_SCORE + MacdAdj(macd_data.signal) + KdjAdj(kdj_data.signal)
    + RsiAdj(rsi_data.signal) + BollAdj(boll_data.signal) + TrendAdj(trend.label)

\* C1: whatever labels technical_score receives, also those whose adjustments
\* sum below 0 or above 100, the score it returns is an integer in 0..100.
C1_ScoreInRange == score_data.set => score_data.score \in 0..100

\* C1 witness: the adjustments sum above 100 and the returned score is 100.
C1_Witness == score_data.set /\ RawScore > 100 /\ score_data.score = 100

\* C2: the rating and the stars are the tier of the returned score, with
\* inclusive lower bounds 80 / 65 / 50 / 35, and the stars never decrease when
\* the score increases.
C2_RatingIsTierOfScore ==
    score_data.set =>
        LET s == score_data.score
            st == score_data.stars
            rt == score_data.rating
        IN /\ s >= 80 => (st = 5 /\ rt = L_RATE_STRONG_BUY)
           /\ (s >= 65 /\ s <= 79) => (st = 4 /\ rt = L_RATE_BUY)
           /\ (s >= 50 /\ s <= 64) => (st = 3 /\ rt = L_RATE_NEUTRAL)
           /\ (s >= 35 /\ s <= 49) => (st = 2 /\ rt = L_RATE_SELL)
           /\ s < 35 => (st = 1 /\ rt = L_RATE_STRONG_SELL)
           /\ \A a \in -20..120 : Rating(a).stars <= Rating(a + 1).stars

\* C2 witness: a score of exactly 80 is rated strong buy with 5 stars.
C2_Witness ==
    score_data.set /\ score_data.score = 80 /\ score_data.stars = 5
    /\ score_data.rating = L_RATE_STRONG_BUY

\* the adjustment the rule table gives each emitted label, by the label itself
TableMacd(l) ==
    IF l \in {L_MACD_GOLDEN, L_MACD_BULL_STRONG, L_MACD_BULL_EMERGING} THEN 15
    ELSE IF l \in {L_MACD_DEATH, L_MACD_BEAR_STRONG, L_MACD_BEAR_EMERGING} THEN -15
    ELSE 0
TableKdj(l) ==
    IF l = L_KDJ_STRONG_BUY THEN 15
    ELSE IF l = L_KDJ_BUY THEN 10
    ELSE IF l = L_KDJ_STRONG_SELL THEN -15
    ELSE IF l = L_KDJ_SELL THEN -10
    ELSE 0
TableRsi(l) ==
    IF l \in {L_RSI_OVERSOLD, L_RSI_SEVERE_OVERSOLD} THEN 10
    ELSE IF l \in {L_RSI_OVERBOUGHT, L_RSI_SEVERE_OVERBOUGHT} THEN -10
    ELSE 0
TableBoll(l) ==
    IF l = L_BOLL_OVERSOLD THEN 10
    ELSE IF l = L_BOLL_OVERBOUGHT THEN -10
    ELSE IF l = L_BOLL_BULLISH THEN 5
    ELSE IF l = L_BOLL_BEARISH THEN -5
    ELSE 0
TableTrend(l) == IF l = L_UPTREND THEN 15 ELSE IF l = L_DOWNTREND THEN -15 ELSE 0
TableScore ==
    LET x == 50 + TableMacd(macd_data.signal) + TableKdj(kdj_data.signal)
             + TableRsi(rsi_data.signal) + TableBoll(boll_data.signal)
             + TableTrend(trend.label)
    IN IF x < 0 THEN 0 ELSE IF x > 100 THEN 100 ELSE x

\* C3: for every combination of emitted labels the score is
\* clamp(50 + m + k + r + b + t, 0, 100) with one adjustment per family, as
\* the rule table lists them, and 0 for every other label of the family.
C3_ScoreIsTableSum ==
    (/\ score_data.set
     /\ macd_data.signal \in MacdLabels
     /\ kdj_data.signal \in KdjLabels
     /\ rsi_data.signal \in RsiLabels
     /\ boll_data.signal \in BollLabels
     /\ trend.label \in TrendLabels) => score_data.score = TableScore

\* C3 witness: all five families contribute and nothing is clamped
\* (50 + 15 - 10 + 10 - 5 - 15 = 45).
C3_Witness ==
    /\ score_data.set
    /\ macd_data.signal = L_MACD_BULL_EMERGING
    /\ kdj_data.signal = L_KDJ_SELL
    /\ rsi_data.signal = L_RSI_SEVERE_OVERSOLD
    /\ boll_data.signal = L_BOLL_BEARISH
    /\ trend.label = L_DOWNTREND
    /\ score_data.score = 45

\* C4: with at least 2 points get_macd_signal returns golden cross iff prior
\* DIF <= prior DEA and current DIF > current DEA, death cross iff prior
\* DIF >= prior DEA and current DIF < current DEA; with no crossing, bullish
\* (strong iff DIF > 0) when current DIF > DEA and bearish (strong iff
\* DIF < 0) otherwise; with fewer than 2 points, insufficient data.
C4_MacdSignal ==
    macd_data.set =>
        LET dif == macd_data.DIF
            dea == macd_data.DEA
            n == Len(dif)
            sig == macd_data.signal
        IN IF n < 2 THEN sig = L_INSUFFICIENT
           ELSE LET golden == FLe(dif[n - 1], dea[n - 1]) /\ FGt(dif[n], dea[n])
                    death == FGe(dif[n - 1], dea[n - 1]) /\ FLt(dif[n], dea[n])
                IN /\ sig = L_MACD_GOLDEN <=> golden
                   /\ sig = L_MACD_DEATH <=> death
                   /\ (~golden /\ ~death /\ FGt(dif[n], dea[n])) =>
                         sig = (IF FGt(dif[n], Const(0)) THEN L_MACD_BULL_STRONG
                                ELSE L_MACD_BULL_EMERGING)
                   /\ (~golden /\ ~death /\ ~FGt(dif[n], dea[n])) =>
                         sig = (IF FLt(dif[n], Const(0)) THEN L_MACD_BEAR_STRONG
                                ELSE L_MACD_BEAR_EMERGING)

\* C4 witness: prior DIF equals prior DEA, current DIF is above DEA, and the
\* signal returned is golden cross.
C4_Witness ==
    /\ macd_data.set
    /\ Len(macd_data.DIF) >= 2
    /\ iloc(macd_data.DIF, 2) = iloc(macd_data.DEA, 2)
    /\ IsNum(iloc(macd_data.DIF, 2))
    /\ FGt(iloc(macd_data.DIF, 1), iloc(macd_data.DEA, 1))
    /\ macd_data.signal = L_MACD_GOLDEN

(***************************************************************************)
(* Properties of analyze_stock and of the indicator series                 *)
(***************************************************************************)
Done == pc \in {"returned", "raised"}

\* C5: a series of exactly 5 bars yields a bundle without raising, with a
\* defined current price and change, and with "insufficient data" as the
\* signal of every indicator family (MACD, KDJ, RSI, BOLL).
C5_FiveBarsInsufficient ==
    (Len(df) = 5 /\ Done) =>
        /\ pc = "returned"
        /\ IsNum(result.price.current)
        /\ IsNum(result.price.change_pct)
        /\ result.indicators.MACD.signal = L_INSUFFICIENT
        /\ result.indicators.KDJ.signal = L_INSUFFICIENT
        /\ result.indicators.RSI.signal = L_INSUFFICIENT
        /\ result.indicators.BOLL.signal = L_INSUFFICIENT

\* C6: analyze_stock raises only for an empty series; every series of one
\* bar or more returns a complete bundle.
C6_OnlyEmptyRaises ==
    Done => IF Len(df) = 0 THEN pc = "raised" ELSE (pc = "returned" /\ result.set)

\* the last value of a series is defined
LastDefined(xs) == ~IsNaN(iloc(xs, 1))

\* C7: for every series of at least the largest window (120 bars) the value
\* at the final position of every indicator output is defined (not NaN),
\* also when the close is constant over the RSI window.
C7_LastValuesDefined ==
    Len(df) >= LongLen =>
        /\ ma_data.set => \A k \in 1..Len(MA_PERIODS) : LastDefined(ma_data.MA[k])
        /\ macd_data.set =>
              /\ LastDefined(macd_data.DIF)
              /\ LastDefined(macd_data.DEA)
              /\ LastDefined(macd_data.MACD)
        /\ kdj_data.set =>
              /\ LastDefined(kdj_data.K)
              /\ LastDefined(kdj_data.D)
              /\ LastDefined(kdj_data.J)
        /\ rsi_data.set => LastDefined(rsi_data.RSI)
        /\ boll_data.set =>
              /\ LastDefined(boll_data.UPPER)
              /\ LastDefined(boll_data.MID)
              /\ LastDefined(boll_data.LOWER)
        /\ atr.set => LastDefined(atr.ATR)
        /\ vol_ma.set => \A k \in 1..Len(VOL_PERIODS) : LastDefined(vol_ma.VOL_MA[k])

\* the n bars ending at i all have high = low and span no range
FlatWindow(i, n) ==
    /\ i >= n
    /\ \A j \in (i - n + 1)..i : df[j].high = df[j].low
    /\ \A j \in (i - n + 1)..i : df[j].high = df[i].high

\* C8: whenever the n-bar window ending at a position is perfectly flat, the
\* RSV used there is exactly 50 and K, D and J are finite numbers.
C8_FlatWindowRsv ==
    kdj_data.set =>
        \A i \in 1..Len(df) :
            FlatWindow(i, KDJ_N) =>
                /\ kdj_data.RSV[i] = Const(50)
                /\ IsNum(kdj_data.K[i])
                /\ IsNum(kdj_data.D[i])
                /\ IsNum(kdj_data.J[i])

\* C8 witness: a flat window that follows bars with a range: RSV is 50 there
\* while K is still away from 50.
C8_Witness ==
    /\ kdj_data.set
    /\ \E i \in 1..Len(df) :
          /\ FlatWindow(i, KDJ_N)
          /\ kdj_data.RSV[i] = Const(50)
          /\ IsNum(kdj_data.K[i])
          /\ kdj_data.K[i] # Const(50)

\* the closes rise (dir = 1) or fall (dir = -1) strictly over the period
\* deltas that end at i
Monotone(i, period, dir) ==
    /\ i >= period + 1
    /\ \A j \in (i - period + 1)..i : (df[j].close - df[j - 1].close) * dir > 0

\* C9: a close strictly increasing over the full period window gives RSI
\* exactly 100 at the window's last position, a close strictly decreasing
\* over it gives RSI 0.
C9_RsiSaturates ==
    rsi_data.set =>
        \A i \in 1..Len(df) :
            /\ Monotone(i, RSI_PERIOD, 1) => rsi_data.RSI[i] = Const(100)
            /\ Monotone(i, RSI_PERIOD, -1) => rsi_data.RSI[i] = Const(0)

\* C9 witness: one series with a strictly falling window (RSI 0) and, later,
\* a strictly rising one (RSI 100).
C9_Witness ==
    /\ rsi_data.set
    /\ \E i \in 1..Len(df) : Monotone(i, RSI_PERIOD, -1) /\ rsi_data.RSI[i] = Const(0)
    /\ \E i \in 1..Len(df) : Monotone(i, RSI_PERIOD, 1) /\ rsi_data.RSI[i] = Const(100)

\* every position before the w-th of the series is NaN
WarmupNaN(xs, w) == \A i \in 1..Len(xs) : i < w => IsNaN(xs[i])

\* C10: for every window-based indicator (MA, KDJ, RSI, BOLL, ATR, volume MA)
\* the output at every position with fewer than `window` observations behind
\* it is NaN, never a substituted number.
C10_WarmupUndefined ==
    /\ ma_data.set => \A k \in 1..Len(MA_PERIODS) : WarmupNaN(ma_data.MA[k], MA_PERIODS[k])
    /\ kdj_data.set =>
          /\ WarmupNaN(kdj_data.K, KDJ_N)
          /\ WarmupNaN(kdj_data.D, KDJ_N)
          /\ WarmupNaN(kdj_data.J, KDJ_N)
    /\ rsi_data.set => WarmupNaN(rsi_data.RSI, RSI_PERIOD)
    /\ boll_data.set =>
          /\ WarmupNaN(boll_data.UPPER, BOLL_PERIOD)
          /\ WarmupNaN(boll_data.MID, BOLL_PERIOD)
          /\ WarmupNaN(boll_data.LOWER, BOLL_PERIOD)
    /\ atr.set => WarmupNaN(atr.ATR, ATR_PERIOD)
    /\ vol_ma.set =>
          \A k \in 1..Len(VOL_PERIODS) : WarmupNaN(vol_ma.VOL_MA[k], VOL_PERIODS[k])

(***************************************************************************)
(* get_kdj_signal on every pair of aligned K and D sequences.              *)
(***************************************************************************)
\* K and D sequences handed to get_kdj_signal have at most MaxKdjLen points
MaxKdjLen == 2
\* the levels 20, 50 and 80 of the classifier, values on both sides, and NaN
KdjValues == {NaN, Const(0), Const(10), Const(20), Const(50), Const(80), Const(90),
              Const(100)}
KdjSeqs(n) == [1..n -> KdjValues]

InitKdj ==
    /\ pc = "get_kdj_signal"
    /\ df = <<>>
    /\ \E n \in 0..MaxKdjLen :
          kdj_data \in {[set |-> FALSE, K |-> a, D |-> b] :
                           a \in KdjSeqs(n), b \in KdjSeqs(n)}
    /\ macd_data = Unset
    /\ rsi_data = Unset
    /\ boll_data = Unset
    /\ trend = Unset
    /\ InitCommon

Call_get_kdj_signal ==
    /\ pc = "get_kdj_signal"
    /\ pc' = "returned"
    /\ kdj_data' = [set |-> TRUE, K |-> kdj_data.K, D |-> kdj_data.D,
                    signal |-> get_kdj_signal(kdj_data.K, kdj_data.D)]
    /\ UNCHANGED <<df, ma_data, macd_data, rsi_data, boll_data, atr, vol_ma,
                   trend, sr, score_data, result>>

NextKdj == Call_get_kdj_signal

SpecKdj == InitKdj /\ [][NextKdj]_vars

\* C11: with at least 2 points, on a fresh golden cross (prior K <= prior D,
\* current K > current D) the label is strong buy when K < 20, buy when
\* 20 <= K < 50, else high-level golden cross; on a fresh death cross (prior
\* K >= prior D, current K < current D) it is strong sell when K > 80, sell
\* when 50 < K <= 80, else low-level death cross; with no fresh cross it is
\* overbought zone when K > 80, oversold zone when K < 20, else neutral.
C11_KdjSignal ==
    (kdj_data.set /\ Len(kdj_data.K) >= 2) =>
        LET k == kdj_data.K
            d == kdj_data.D
            n == Len(k)
            sig == kdj_data.signal
            golden == FLe(k[n - 1], d[n - 1]) /\ FGt(k[n], d[n])
            death == FGe(k[n - 1], d[n - 1]) /\ FLt(k[n], d[n])
        IN /\ golden =>
                sig = (IF FLt(k[n], Const(20)) THEN L_KDJ_STRONG_BUY
                       ELSE IF FLt(k[n], Const(50)) THEN L_KDJ_BUY
                       ELSE L_KDJ_HIGH_GOLDEN)
           /\ death =>
                sig = (IF FGt(k[n], Const(80)) THEN L_KDJ_STRONG_SELL
                       ELSE IF FGt(k[n], Const(50)) THEN L_KDJ_SELL
                       ELSE L_KDJ_LOW_DEATH)
           /\ (~golden /\ ~death) =>
                sig = (IF FGt(k[n], Const(80)) THEN L_KDJ_OVERBOUGHT
                       ELSE IF FLt(k[n], Const(20)) THEN L_KDJ_OVERSOLD
                       ELSE L_KDJ_NEUTRAL)

\* C11 witness: a fresh golden cross with K exactly 20 is labelled buy, not
\* strong buy.
C11_Witness ==
    /\ kdj_data.set
    /\ Len(kdj_data.K) >= 2
    /\ FLe(iloc(kdj_data.K, 2), iloc(kdj_data.D, 2))
    /\ FGt(iloc(kdj_data.K, 1), iloc(kdj_data.D, 1))
    /\ iloc(kdj_data.K, 1) = Const(20)
    /\ kdj_data.signal = L_KDJ_BUY

\* the sum of the trailing w closes; the trailing mean is defined when the
\* series has at least w closes, and is then this sum over w
TrailingSum(w) == SumV(close, Len(close) - w + 1, Len(close))
HasWindow(w) == Len(close) >= w
\* short MA > long MA and close > short MA, on the exact means
TrendUp ==
    /\ HasWindow(TREND_MA_SHORT)
    /\ HasWindow(TREND_MA_LONG)
    /\ TrailingSum(TREND_MA_SHORT) * TREND_MA_LONG > TrailingSum(TREND_MA_LONG) * TREND_MA_SHORT
    /\ close[Len(close)].v * TREND_MA_SHORT > TrailingSum(TREND_MA_SHORT)
TrendDown ==
    /\ HasWindow(TREND_MA_SHORT)
    /\ HasWindow(TREND_MA_LONG)
    /\ TrailingSum(TREND_MA_SHORT) * TREND_MA_LONG < TrailingSum(TREND_MA_LONG) * TREND_MA_SHORT
    /\ close[Len(close)].v * TREND_MA_SHORT < TrailingSum(TREND_MA_SHORT)
TrendByRule ==
    IF TrendUp THEN L_UPTREND ELSE IF TrendDown THEN L_DOWNTREND ELSE L_SIDEWAYS

\* C12 as stated: detect_trend returns uptrend exactly when latest short MA >
\* latest long MA and latest close > latest short MA, downtrend exactly when
\* latest short MA < latest long MA and latest close < latest short MA, and
\* sideways in every other case, including every series shorter than a window.
C12_TrendAlwaysByRule ==
    trend.set => trend.label = TrendByRule

\* C12 amended: for every non-empty series detect_trend returns uptrend,
\* downtrend or sideways by the rule above (sideways whenever a moving average
\* is undefined); for the empty series it returns insufficient data.
C12_TrendByRuleUnlessEmpty ==
    trend.set =>
        trend.label = (IF Len(df) = 0 THEN L_INSUFFICIENT ELSE TrendByRule)

\* C12 witness: a series shorter than the long window but not than the short
\* one, rising at its end, is classified sideways.
C12_Witness ==
    /\ trend.set
    /\ HasWindow(TREND_MA_SHORT)
    /\ ~HasWindow(TREND_MA_LONG)
    /\ close[Len(close)].v * TREND_MA_SHORT > TrailingSum(TREND_MA_SHORT)
    /\ trend.label = L_SIDEWAYS

\* the label is the neutral one, whatever value it reports
IsRsiNeutral(sig) ==
    /\ Len(sig) >= Len(L_RSI_NEUTRAL_PREFIX)
    /\ SubSeq(sig, 1, Len(L_RSI_NEUTRAL_PREFIX)) = L_RSI_NEUTRAL_PREFIX

\* C13: get_rsi_signal labels the latest RSI value severe overbought above 80,
\* overbought from 70 to 80, severe oversold below 20, oversold from 20 to 30,
\* and the neutral label is returned only for a defined RSI value between the
\* oversold and the overbought zone.
C13_RsiZones ==
    (rsi_data.set /\ Len(rsi_data.RSI) >= 1) =>
        LET v == iloc(rsi_data.RSI, 1)
            sig == rsi_data.signal
        IN /\ FGt(v, Const(80)) => sig = L_RSI_SEVERE_OVERBOUGHT
           /\ (FGt(v, Const(70)) /\ FLe(v, Const(80))) => sig = L_RSI_OVERBOUGHT
           /\ FLt(v, Const(20)) => sig = L_RSI_SEVERE_OVERSOLD
           /\ (FGe(v, Const(20)) /\ FLt(v, Const(30))) => sig = L_RSI_OVERSOLD
           /\ IsRsiNeutral(sig) =>
                 (IsNum(v) /\ FGe(v, Const(30)) /\ FLe(v, Const(70)))

\* C14: in a returned bundle, uptrend never comes with the BOLL signal
\* oversold or bearish bias, and downtrend never with overbought or bullish
\* bias, so the scorer's trend and BOLL adjustments are never +15 with +10 or
\* -5, nor -15 with -10 or +5.
C14_TrendAgreesWithBoll ==
    result.set =>
        LET tr == result.trend
            boll == result.indicators.BOLL.signal
        IN /\ tr = L_UPTREND => boll \notin {L_BOLL_OVERSOLD, L_BOLL_BEARISH}
           /\ tr = L_DOWNTREND => boll \notin {L_BOLL_OVERBOUGHT, L_BOLL_BULLISH}
           /\ ~(TrendAdj(tr) = 15 /\ BollAdj(boll) \in {10, -5})
           /\ ~(TrendAdj(tr) = -15 /\ BollAdj(boll) \in {-10, 5})

\* C14 witness: a bundle with a downtrend whose latest close is inside the
\* bands, labelled bearish bias.
C14_Witness ==
    /\ result.set
    /\ result.trend = L_DOWNTREND
    /\ result.indicators.BOLL.signal = L_BOLL_BEARISH
    /\ FGe(iloc(close, 1), iloc(boll_data.LOWER, 1))

(***************************************************************************)
(* find_support_resistance on series around its window length, with prices *)
(* finer than a cent.                                                      *)
(***************************************************************************)
\* the series handed to find_support_resistance have at most MaxLevelLen bars
MaxLevelLen == 22
\* the empty series, one bar short of the window, and the window or more
LevelLens == {0} \cup ((SR_PERIOD - 1)..MaxLevelLen)
\* a bar's close relative to the base price, in ticks: at the usual low, in the
\* middle, at the usual high
LevelCloses == {-2, 0, 2}
\* n bars around BasePrice + off ticks: bar d dips to a lower low, bar u
\* spikes to a higher high; low <= close <= high in every bar
LevelBars(n, d, u, off, cl) ==
    [i \in 1..n |->
        LET base == BasePrice * FP + off
        IN [high |-> base + (IF i = u THEN 5 ELSE 2),
            low |-> base - (IF i = d THEN 5 ELSE 2),
            close |-> base + cl,
            volume |-> 1000 * FP]]
LevelSeries ==
    {LevelBars(n, d, u, off, cl) :
        n \in LevelLens, d \in 1..MaxLevelLen, u \in 1..MaxLevelLen,
        off \in 0..(TicksPerCent - 1), cl \in LevelCloses}

InitLevels ==
    /\ pc = "find_support_resistance"
    /\ df \in LevelSeries
    /\ macd_data = Unset
    /\ kdj_data = Unset
    /\ rsi_data = Unset
    /\ boll_data = Unset
    /\ trend = Unset
    /\ InitCommon

NextLevels == Call_find_support_resistance

SpecLevels == InitLevels /\ [][NextLevels]_vars

\* the trailing SR_PERIOD bars ending at the latest bar
TrailingBars == (Len(df) - SR_PERIOD + 1)..Len(df)
WindowMinLow ==
    CHOOSE m \in {df[j].low : j \in TrailingBars} : \A j \in TrailingBars : m <= df[j].low
WindowMaxHigh ==
    CHOOSE m \in {df[j].high : j \in TrailingBars} : \A j \in TrailingBars : m >= df[j].high
\* v ticks is a whole number of cents
WholeCents(v) == v % TicksPerCent = 0
\* a and b ticks differ by at most half a cent
WithinHalfCent(a, b) == 2 * a - 2 * b <= TicksPerCent /\ 2 * b - 2 * a <= TicksPerCent

\* C15 as stated: for every series of at least period bars with low <= close
\* <= high, support equals the minimum low and resistance the maximum high of
\* the trailing period bars, and support <= pivot <= resistance.
C15_LevelsAreExtremes ==
    (sr.set /\ Len(df) >= SR_PERIOD) =>
        /\ sr.support = Num(WindowMinLow)
        /\ sr.resistance = Num(WindowMaxHigh)
        /\ FLe(sr.support, sr.pivot)
        /\ FLe(sr.pivot, sr.resistance)

\* C15 amended: for such a series support is the minimum low and resistance
\* the maximum high of the trailing period bars, each rounded to 2 decimal
\* places (a whole number of cents at most half a cent away), and the
\* returned levels satisfy support <= pivot <= resistance.
C15_LevelsAreRoundedExtremes ==
    (sr.set /\ Len(df) >= SR_PERIOD) =>
        /\ IsNum(sr.support)
        /\ WholeCents(sr.support.v)
        /\ WithinHalfCent(sr.support.v, WindowMinLow)
        /\ IsNum(sr.resistance)
        /\ WholeCents(sr.resistance.v)
        /\ WithinHalfCent(sr.resistance.v, WindowMaxHigh)
        /\ FLe(sr.support, sr.pivot)
        /\ FLe(sr.pivot, sr.resistance)

\* C15 witness: the lowest low of the series lies before the trailing window,
\* the window's minimum low is not a whole number of cents, and the support
\* returned differs from it.
C15_Witness ==
    /\ sr.set
    /\ Len(df) > SR_PERIOD
    /\ \E j \in 1..(Len(df) - SR_PERIOD) : df[j].low < WindowMinLow
    /\ ~WholeCents(WindowMinLow)
    /\ sr.support # Num(WindowMinLow)
====
